---------------------------- MODULE Spec2Model ----------------------------
(***************************************************************************)
(* Model of the Streamlit dashboard src/timetable-scheduler/app.py.        *)
(*                                                                         *)
(* Streamlit re-executes the whole script, top to bottom, once per user    *)
(* interaction.  One script run is one action, named after what the user   *)
(* is looking at (LoginRun, TimetableRun, ...).  The only state that       *)
(* survives a run is st.session_state.logged_in; the other variables       *)
(* record what the latest run did (what it rendered, which requests it     *)
(* sent, which errors it showed), so that properties of a run are state    *)
(* predicates.  Widget values are inputs of the run: every combination of  *)
(* widget values can be reached by successive interactions, so each run    *)
(* draws them afresh.  A button click is only possible on a button that    *)
(* the previous run rendered.                                              *)
(*                                                                         *)
(* A second specification (SpecBackend) models the generation engine       *)
(* behind POST /api/timetable/generate, which is not part of the source    *)
(* tree, from its description in the specification.                        *)
(***************************************************************************)
EXTENDS Integers, Sequences, FiniteSets, TLC

VARIABLES
    logged_in,   \* st.session_state.logged_in
    ran,         \* TRUE once a script run has happened in the session
    started,     \* value of logged_in when the latest run started
    view,        \* what the latest run rendered: "none", "login" or "main"
    page,        \* value of the sidebar radio in the latest run
    clicked,     \* the button whose click triggered the latest run
    pressed,     \* the button whose st.button(...) call returned True
    buttons,     \* the buttons the latest run rendered
    log,         \* the backend requests of the latest run, in order
    errors,      \* the st.error messages of the latest run, in order
    raised,      \* the latest run was aborted by an uncaught exception
    rerun,       \* the latest run was ended by st.rerun()
    fieldsRead,  \* Subject field names the latest run subscripted
    ui,          \* the widget values the latest run read
    \* ---- generation engine (SpecBackend) ----
    lock,        \* per key: the request holding the key's lock, or NoReq
    store,       \* per key: the current timetable and the request it came from
    pc,          \* per request: its position
    rkey,        \* per request: the (department, semester) key it targets
    demand,      \* per request: the subjects it asks to schedule
    work,        \* per request: its working assignment, in placement order
    cursor,      \* per request: the first slot the next placement may take
    budget,      \* per request: backtrack steps left
    reply        \* per request: the answer it was given

feVars == <<logged_in, ran, started, view, page, clicked, pressed, buttons,
            log, errors, raised, rerun, fieldsRead, ui>>
beVars == <<lock, store, pc, rkey, demand, work, cursor, budget, reply>>
vars == <<feVars, beVars>>

---------------------------------------------------------------------------
(* Bounds and input samples *)

\* longest subject list the backend returns
MaxSubjects == 2

\* Text is a sequence of characters where the code takes it apart or puts it
\* together (names and codes go into the multiselect labels).
S1 == [name |-> <<"A", " ", "(", "B">>, code |-> <<"C">>,
       faculty |-> "Rao", alternateFaculty |-> "Iyer", hoursPerWeek |-> 3,
       labRequired |-> FALSE, department |-> "CSE", available |-> TRUE]
S2 == [name |-> <<"A">>, code |-> <<"B", " ", "(", "C">>,
       faculty |-> "Iyer", alternateFaculty |-> "", hoursPerWeek |-> 4,
       labRequired |-> TRUE, department |-> "ECE", available |-> TRUE]
S3 == [name |-> <<"D">>, code |-> <<"E">>,
       faculty |-> "", alternateFaculty |-> "", hoursPerWeek |-> 1,
       labRequired |-> FALSE, department |-> "CSE", available |-> FALSE]

\* The subjects the backend may hold; codes are unique.
Catalogue == <<S1, S2, S3>>

RECURSIVE Pick(_, _)
\* the subsequence of Catalogue at the indices I, from index i on
Pick(I, i) ==
    IF i > Len(Catalogue) THEN <<>>
    ELSE IF i \in I THEN <<Catalogue[i]>> \o Pick(I, i + 1)
    ELSE Pick(I, i + 1)

\* The bodies GET /api/subjects may answer with status 200.
Lists == { Pick(I, 1) : I \in { J \in SUBSET (1..Len(Catalogue)) :
                                   Cardinality(J) <= MaxSubjects } }

\* What a request can meet: "ok" is status 200 with the documented body,
\* "err" is a non-200 status with a JSON error object as body, "down" is no
\* response at all (requests raises ConnectionError).
RespKinds == {"ok", "err", "down"}

Usernames == {"admin", "Admin", ""}
Passwords == {"timetable123", "timetable", ""}
Departments == {"", "CSE"}
Semesters == {"", "5"}

\* a value for an input the run never reads
Unused == "unused"

\* the values of an input: S when the run reads it
Opt(read, S) == IF read THEN S ELSE {Unused}

---------------------------------------------------------------------------
(* The run in progress: a record of what the script has done so far *)

UI0 == [username |-> Unused, password |-> Unused, department |-> Unused,
        semester |-> Unused, subjects |-> <<>>, picked |-> {},
        selected |-> {}, table |-> <<>>, faculty_list |-> <<>>,
        faculty |-> <<>>, days |-> {}, times |-> {}]

\* the run before its first statement, with the radio at pg
Start(pg) ==
    [logged_in |-> logged_in, view |-> "none", page |-> pg,
     pressed |-> "none", buttons |-> {}, log |-> <<>>, errors |-> <<>>,
     raised |-> FALSE, rerun |-> FALSE, fieldsRead |-> {}, ui |-> UI0]

\* the script stopped: an uncaught exception, or st.rerun()
Halted(o) == o.raised \/ o.rerun

NoPayload == <<>>

\* requests.get / requests.post: the request goes out; with no backend to
\* answer, requests raises and the run is aborted
Request(o, method, endpoint, payload, resp) ==
    IF Halted(o) THEN o
    ELSE [o EXCEPT !.log = Append(@, [method |-> method,
                                      endpoint |-> endpoint,
                                      payload |-> payload, resp |-> resp,
                                      checked |-> FALSE, used |-> FALSE]),
                   !.raised = (resp = "down")]

get(o, endpoint, resp) == Request(o, "GET", endpoint, NoPayload, resp)

post(o, endpoint, payload, resp) == Request(o, "POST", endpoint, payload, resp)

\* the response the script holds: that of its latest request
Response(o) == o.log[Len(o.log)]

\* response.status_code == 200, which the script has now looked at
StatusChecked(o) ==
    IF Halted(o) THEN o ELSE [o EXCEPT !.log[Len(o.log)].checked = TRUE]

\* response.json() (or .content), whose value the script goes on to use
BodyUsed(o) ==
    IF Halted(o) THEN o ELSE [o EXCEPT !.log[Len(o.log)].used = TRUE]

\* an uncaught exception: Streamlit aborts the run
Raise(o) == IF Halted(o) THEN o ELSE [o EXCEPT !.raised = TRUE]

\* st.error(msg)
StError(o, msg) ==
    IF Halted(o) THEN o ELSE [o EXCEPT !.errors = Append(@, msg)]

\* st.button(b): renders b, and is True in the run its click triggered
StButton(o, b, click) ==
    IF Halted(o) THEN o
    ELSE [o EXCEPT !.buttons = @ \cup {b},
                   !.pressed = IF click = b THEN b ELSE @]

\* s[f], f in fs, in an expression the run evaluates over the subjects of a
\* response body
Subscript(o, fs) ==
    IF Halted(o) THEN o ELSE [o EXCEPT !.fieldsRead = @ \cup fs]

---------------------------------------------------------------------------
(* Login *)

CORRECT_USERNAME == "admin"
CORRECT_PASSWORD == "timetable123"

\* a credential check that forgets the password
check_password_UsernameOnly(username, password) ==
    username = CORRECT_USERNAME

check_password(username, password) ==
    username = CORRECT_USERNAME /\ password = CORRECT_PASSWORD

login_page(o, username, password, click) ==
    LET o1 == [o EXCEPT !.view = "login", !.ui.username = username,
                        !.ui.password = password]
        o2 == StButton(o1, "Login", click)
    IN  IF o2.pressed = "Login"
        THEN IF check_password(username, password)
             THEN [o2 EXCEPT !.logged_in = TRUE, !.rerun = TRUE]
             ELSE StError(o2, "Invalid username or password")
        ELSE o2

\* the statements after the main flow control: the sidebar's Logout button
Epilogue(o, click) ==
    IF Halted(o) \/ ~o.logged_in THEN o
    ELSE LET o1 == StButton(o, "Logout", click)
         IN  IF o1.pressed = "Logout"
             THEN [o1 EXCEPT !.logged_in = FALSE, !.rerun = TRUE]
             ELSE o1

\* the end of a script run: what it did becomes the state
Commit(o, click) ==
    /\ logged_in' = o.logged_in
    /\ ran' = TRUE
    /\ started' = logged_in
    /\ view' = o.view
    /\ page' = o.page
    /\ clicked' = click
    /\ pressed' = o.pressed
    /\ buttons' = o.buttons
    /\ log' = o.log
    /\ errors' = o.errors
    /\ raised' = o.raised
    /\ rerun' = o.rerun
    /\ fieldsRead' = o.fieldsRead
    /\ ui' = o.ui
    /\ UNCHANGED beVars

\* the clicks that can trigger the next run: a button on the screen, unless
\* the script asked for an immediate rerun
Clicks == IF rerun THEN {"none"} ELSE buttons \cup {"none"}

Pages == {"Timetable Management", "Subject Management", "Faculty Preferences"}

\* st.sidebar.radio: the first option until the user changes it, which is an
\* interaction of its own
PageChoices(click) ==
    IF view # "main" THEN {"Timetable Management"}
    ELSE IF click # "none" THEN {page}
    ELSE Pages

\* main_app up to the page: the sidebar, with its feedback button
Sidebar(o, click) ==
    StButton([o EXCEPT !.view = "main"], "Submit Feedback", click)

\* a run of the script shown the login page
LoginRun ==
    \E click \in Clicks :
    /\ ~logged_in
    /\ \E username \in Usernames, password \in Passwords :
         Commit(Epilogue(login_page(Start("none"), username, password, click),
                         click), click)

---------------------------------------------------------------------------
(* Endpoints: the path after BASE_URL, as its segments *)

SUBJECTS == <<"api", "subjects">>
PREFERENCES == <<"api", "faculty", "preferences">>
GENERATE == <<"api", "timetable", "generate">>
VALIDATE == <<"api", "timetable", "validate">>
DOWNLOAD == <<"api", "timetable", "download">>

---------------------------------------------------------------------------
(* Timetable Management *)

MAX_SESSIONS_MIN == 1
MAX_SESSIONS_MAX == 10
FREE_PERIODS_MIN == 0
FREE_PERIODS_MAX == 20

\* st.number_input(min_value, max_value): the widget yields a number of the
\* range only; the runs take its two ends
NumberInput(min_value, max_value) ==
    { n \in min_value..max_value : n \in {min_value, max_value} }

Formats == {"CSV", "Excel"}

\* format.lower()
FormatLower(format) ==
    CASE format = "CSV" -> "csv"
      [] format = "Excel" -> "excel"
      [] OTHER -> format

\* f"{subject['name']} ({subject['code']})"
Label(subject) == subject.name \o <<" ", "(">> \o subject.code \o <<")">>

\* the multiselect's options, in the order of the fetched list
Options(subjects) == [i \in 1..Len(subjects) |-> Label(subjects[i])]

\* st.multiselect: the labels of the options the user picked
Selected(subjects, picked) == { Options(subjects)[i] : i \in picked }

\* the list comprehension that maps the selection back to subjects
SelectedSubjectsDetails(subjects, selected) ==
    SelectSeq(subjects, LAMBDA subject : Label(subject) \in selected)

\* the conditions under which the Generate button goes on to send
GenerateInputsOk(selected, department, semester) ==
    /\ selected # {}
    /\ department # ""
    /\ semester # ""

\* the dashboard metrics: three fetches whose status is never looked at
MetricSubjects(o, resp) == BodyUsed(get(o, SUBJECTS, resp))

\* len(set(s['faculty'] for s in get(...).json())): iterating an error
\* object yields its keys, and subscripting a key raises TypeError
MetricFaculty(o, resp) ==
    LET o1 == BodyUsed(get(o, SUBJECTS, resp))
    IN  IF resp = "ok" THEN Subscript(o1, {"faculty"}) ELSE Raise(o1)

MetricPreferences(o, resp) == BodyUsed(get(o, PREFERENCES, resp))

\* a Generate handler that forgets the department/semester check
GenerateTimetable_NoDepartmentCheck(o, subjects, selected, department, semester, max_sessions_per_day, desired_free_periods, resp) ==
    IF selected = {} THEN StError(o, "Please select at least one subject.")
    ELSE LET payload ==
                 [department |-> department,
                  semester |-> semester,
                  subjects |-> SelectedSubjectsDetails(subjects, selected),
                  maxSessionsPerDay |-> max_sessions_per_day,
                  desiredFreePeriods |-> desired_free_periods]
             o1 == StatusChecked(post(o, GENERATE, payload, resp))
         IN  IF Halted(o1) \/ Response(o1).resp = "ok" THEN o1
             ELSE StError(o1, "Failed to generate timetable")

\* the body of `if st.button("Generate Timetable")`
GenerateTimetable(o, subjects, selected, department, semester, max_sessions_per_day, desired_free_periods, resp) ==
    IF selected = {} THEN StError(o, "Please select at least one subject.")
    ELSE IF department = "" \/ semester = ""
    THEN StError(o, "Department and Semester are required.")
    ELSE LET payload ==
                 [department |-> department,
                  semester |-> semester,
                  subjects |-> SelectedSubjectsDetails(subjects, selected),
                  maxSessionsPerDay |-> max_sessions_per_day,
                  desiredFreePeriods |-> desired_free_periods]
             o1 == StatusChecked(post(o, GENERATE, payload, resp))
         IN  IF Halted(o1) \/ Response(o1).resp = "ok" THEN o1
             ELSE StError(o1, "Failed to generate timetable")

\* a Download handler that has the backend validate first
DownloadTimetable_Validates(o, format, resp) ==
    LET o1 == StatusChecked(post(o, VALIDATE, NoPayload, resp))
    IN  IF Halted(o1) THEN o1
        ELSE IF Response(o1).resp = "ok"
             THEN [BodyUsed(o1) EXCEPT !.buttons = @ \cup {"Download"}]
             ELSE StError(o1, "Failed to download timetable.")

\* the body of `if st.button("Download Timetable")`
DownloadTimetable(o, format, resp) ==
    LET o1 == StatusChecked(get(o, Append(DOWNLOAD, FormatLower(format)), resp))
    IN  IF Halted(o1) THEN o1
        ELSE IF Response(o1).resp = "ok"
             THEN [BodyUsed(o1) EXCEPT !.buttons = @ \cup {"Download"}]
             ELSE StError(o1, "Failed to download timetable.")

\* a run of the script with the radio at Timetable Management
TimetableRun ==
    \E click \in Clicks :
    /\ logged_in
    /\ "Timetable Management" \in PageChoices(click)
    /\ \E r91 \in RespKinds :
       \E o1 \in {MetricSubjects(Sidebar(Start("Timetable Management"), click), r91)} :
       \E r94 \in Opt(~Halted(o1), RespKinds) :
       \E o2 \in {MetricFaculty(o1, r94)} :
       \E r97 \in Opt(~Halted(o2), RespKinds) :
       \E o3 \in {MetricPreferences(o2, r97)} :
       \E r105 \in Opt(~Halted(o3), RespKinds) :
       \E o4 \in {StatusChecked(get(o3, SUBJECTS, r105))} :
       \E fetched \in {~Halted(o4) /\ r105 = "ok"} :
       \E subjects \in IF fetched THEN Lists ELSE {<<>>} :
       \E o5 \in {IF fetched
                  THEN StButton(Subscript([BodyUsed(o4) EXCEPT !.ui.subjects = subjects],
                                          {"name", "code"}),
                                "Generate Timetable", click)
                  ELSE IF Halted(o4) THEN o4
                  ELSE StError(o4, "Failed to fetch subjects. Please ensure the backend is running.")} :
       \E gen \in {fetched /\ o5.pressed = "Generate Timetable"} :
       \E picked \in IF gen THEN SUBSET (1..Len(subjects)) ELSE {{}} :
       \E department \in Opt(gen, Departments), semester \in Opt(gen, Semesters) :
       \E selected \in {Selected(subjects, picked)} :
       \E sends \in {gen /\ GenerateInputsOk(selected, department, semester)} :
       \E max_sessions_per_day \in
              IF sends THEN NumberInput(MAX_SESSIONS_MIN, MAX_SESSIONS_MAX) ELSE {0},
          desired_free_periods \in
              IF sends THEN NumberInput(FREE_PERIODS_MIN, FREE_PERIODS_MAX) ELSE {0},
          rgen \in Opt(sends, RespKinds) :
       \E o6 \in {IF gen
                  THEN GenerateTimetable(
                         [o5 EXCEPT !.ui.picked = picked, !.ui.selected = selected,
                                    !.ui.department = department,
                                    !.ui.semester = semester],
                         subjects, selected, department, semester,
                         max_sessions_per_day, desired_free_periods, rgen)
                  ELSE o5} :
       \E o7 \in {StButton(o6, "Download Timetable", click)} :
       \E dl \in {~Halted(o7) /\ o7.pressed = "Download Timetable"} :
       \E format \in Opt(dl, Formats), rdl \in Opt(dl, RespKinds) :
       \E o8 \in {IF dl THEN DownloadTimetable(o7, format, rdl) ELSE o7} :
           Commit(Epilogue(o8, click), click)

---------------------------------------------------------------------------
(* Subject Management *)

\* str.lower(), on the characters the runs use
LowerChar(c) ==
    CASE c = "A" -> "a" [] c = "B" -> "b" [] c = "C" -> "c"
      [] c = "D" -> "d" [] c = "E" -> "e" [] c = "F" -> "f"
      [] c = "G" -> "g" [] OTHER -> c

Lower(s) == [i \in 1..Len(s) |-> LowerChar(s[i])]

\* Python's `sub in s` on strings
Contains(sub, s) ==
    \E i \in 0..(Len(s) - Len(sub)) : SubSeq(s, i + 1, i + Len(sub)) = sub

\* what the user may type into "Search Subjects"
Searches == {<<>>, <<"D">>, <<"z">>}

\* the departments of the fetched subjects: the options of the filter
DepartmentsOf(subjects) == { subjects[i].department : i \in 1..Len(subjects) }

\* the list comprehension behind the table
FilteredSubjects(subjects, search, filter_dept) ==
    SelectSeq(subjects,
              LAMBDA s : /\ \/ Contains(Lower(search), Lower(s.name))
                            \/ Contains(Lower(search), Lower(s.code))
                         /\ (filter_dept = {} \/ s.department \in filter_dept))

\* the columns the table selects from the DataFrame of the filtered subjects
TableColumns ==
    {"name", "code", "faculty", "department", "hoursPerWeek", "labRequired"}

\* the "View Subjects" section
ViewSubjects(o, subjects, search, filter_dept) ==
    IF Halted(o) THEN o
    ELSE IF Response(o).resp = "ok"
    THEN LET filtered == FilteredSubjects(subjects, search, filter_dept)
             o1 == Subscript(BodyUsed(o), {"department", "name", "code"})
         IN  IF filtered # <<>>
             THEN [Subscript(o1, TableColumns) EXCEPT !.ui.table = filtered]
             ELSE o1
    ELSE StError(o, "Failed to fetch subjects.")

HOURS_MIN == 1
HOURS_MAX == 40

\* what the user may enter into the "Add Subject" form
SubjectForms ==
    [name : {<<>>, <<"F">>}, code : {<<"G">>}, faculty : {"Rao"},
     alternate_faculty : {""}, hours_per_week : NumberInput(HOURS_MIN, HOURS_MAX),
     lab_required : {FALSE}, department : {"CSE"}, available : BOOLEAN]

\* an Add Subject handler that names the faculty fields as the data model does
AddSubject_DataModelNames(o, form, resp) ==
    LET payload == [name |-> form.name,
                    code |-> form.code,
                    facultyPrimary |-> form.faculty,
                    facultyAlternate |-> form.alternate_faculty,
                    hoursPerWeek |-> form.hours_per_week,
                    labRequired |-> form.lab_required,
                    department |-> form.department,
                    available |-> form.available]
        o1 == StatusChecked(post(o, SUBJECTS, payload, resp))
    IN  IF Halted(o1) \/ Response(o1).resp = "ok" THEN o1
        ELSE StError(o1, "Failed to add subject")

\* the body of `if st.button("Add Subject")`
AddSubject(o, form, resp) ==
    LET payload == [name |-> form.name,
                    code |-> form.code,
                    faculty |-> form.faculty,
                    alternateFaculty |-> form.alternate_faculty,
                    hoursPerWeek |-> form.hours_per_week,
                    labRequired |-> form.lab_required,
                    department |-> form.department,
                    available |-> form.available]
        o1 == StatusChecked(post(o, SUBJECTS, payload, resp))
    IN  IF Halted(o1) \/ Response(o1).resp = "ok" THEN o1
        ELSE StError(o1, "Failed to add subject")

\* a run of the script with the radio at Subject Management
SubjectRun ==
    \E click \in Clicks :
    /\ logged_in
    /\ "Subject Management" \in PageChoices(click)
    /\ \E r167 \in RespKinds :
       \E o1 \in {StatusChecked(get(Sidebar(Start("Subject Management"), click),
                                    SUBJECTS, r167))} :
       \E fetched \in {~Halted(o1) /\ r167 = "ok"} :
       \E subjects \in IF fetched THEN Lists ELSE {<<>>} :
       \E search \in IF fetched THEN Searches ELSE {<<>>} :
       \E filter_dept \in IF fetched THEN {{}, DepartmentsOf(subjects) \cap {"CSE"}}
                          ELSE {{}} :
       \E o2 \in {ViewSubjects(o1, subjects, search, filter_dept)} :
       \E o3 \in {StButton(o2, "Add Subject", click)} :
       \E add \in {~Halted(o3) /\ o3.pressed = "Add Subject"} :
       \E form \in IF add THEN SubjectForms ELSE {Unused} :
       \E radd \in Opt(add, RespKinds) :
       \E o4 \in {IF add THEN AddSubject(o3, form, radd) ELSE o3} :
           Commit(Epilogue(o4, click), click)

---------------------------------------------------------------------------
(* Faculty Preferences *)

WEEKDAYS == {"Monday", "Tuesday", "Wednesday", "Thursday", "Friday"}

PERIODS == {"8:45am - 9:30am", "9:30am - 10:15am", "10:15am - 11:00am",
            "11:30am - 12:15pm", "12:15pm - 1:00pm"}

\* the faculty names of Catalogue in Python's string order
FacultyOrder == <<"", "Iyer", "Rao">>

\* sorted(list(set(s['faculty'] for s in subjects)))
FacultyList(subjects) ==
    SelectSeq(FacultyOrder,
              LAMBDA f : \E i \in 1..Len(subjects) : subjects[i].faculty = f)

\* st.selectbox: one of the options, None (the empty sequence) without options
SelectBox(options) ==
    IF options = <<>> THEN {<<>>} ELSE { <<options[i]>> : i \in 1..Len(options) }

\* Python's `not faculty`: None or the empty string
NotFaculty(faculty) == faculty = <<>> \/ faculty[1] = ""

\* the selections of the two multiselects the runs take
DayPicks == { D \in SUBSET WEEKDAYS : Cardinality(D) \in {0, 1, 5} }
TimePicks == { T \in SUBSET PERIODS : Cardinality(T) \in {0, 5} }

\* an Add Preference handler that forgets the preferred-days check
AddPreference_NoDayCheck(o, faculty, preferred_days, preferred_times, resp) ==
    IF NotFaculty(faculty) THEN StError(o, "Please select a faculty member.")
    ELSE LET payload == [faculty |-> faculty[1],
                         preferredDays |-> preferred_days,
                         preferredTime |-> preferred_times]
             o1 == StatusChecked(post(o, PREFERENCES, payload, resp))
         IN  IF Halted(o1) \/ Response(o1).resp = "ok" THEN o1
             ELSE StError(o1, "Failed to add preference")

\* the body of `if st.button("Add Preference")`
AddPreference(o, faculty, preferred_days, preferred_times, resp) ==
    IF NotFaculty(faculty) THEN StError(o, "Please select a faculty member.")
    ELSE IF preferred_days = {}
    THEN StError(o, "Please select at least one preferred day.")
    ELSE LET payload == [faculty |-> faculty[1],
                         preferredDays |-> preferred_days,
                         preferredTime |-> preferred_times]
             o1 == StatusChecked(post(o, PREFERENCES, payload, resp))
         IN  IF Halted(o1) \/ Response(o1).resp = "ok" THEN o1
             ELSE StError(o1, "Failed to add preference")

\* a run of the script with the radio at Faculty Preferences
PreferenceRun ==
    \E click \in Clicks :
    /\ logged_in
    /\ "Faculty Preferences" \in PageChoices(click)
    /\ \E r227 \in RespKinds :
       \E o1 \in {StatusChecked(get(Sidebar(Start("Faculty Preferences"), click),
                                    SUBJECTS, r227))} :
       \E fetched \in {~Halted(o1) /\ r227 = "ok"} :
       \E subjects \in IF fetched THEN Lists ELSE {<<>>} :
       \E faculty_list \in {IF fetched THEN FacultyList(subjects) ELSE <<>>} :
       \E faculty \in IF Halted(o1) THEN {<<>>} ELSE SelectBox(faculty_list) :
       \E o2 \in {IF Halted(o1) THEN o1
                  ELSE [(IF fetched THEN Subscript(BodyUsed(o1), {"faculty"}) ELSE o1)
                          EXCEPT !.ui.subjects = subjects,
                                 !.ui.faculty_list = faculty_list,
                                 !.ui.faculty = faculty]} :
       \E o3 \in {StButton(o2, "Add Preference", click)} :
       \E add \in {~Halted(o3) /\ o3.pressed = "Add Preference"} :
       \E preferred_days \in IF add THEN DayPicks ELSE {{}} :
       \E preferred_times \in IF add /\ ~NotFaculty(faculty) /\ preferred_days # {}
                              THEN TimePicks ELSE {{}} :
       \E radd \in Opt(add /\ ~NotFaculty(faculty) /\ preferred_days # {}, RespKinds) :
       \E o4 \in {IF add
                  THEN AddPreference([o3 EXCEPT !.ui.days = preferred_days,
                                                !.ui.times = preferred_times],
                                     faculty, preferred_days, preferred_times, radd)
                  ELSE o3} :
           Commit(Epilogue(o4, click), click)

---------------------------------------------------------------------------
(* The generation engine behind POST /api/timetable/generate: a per-key    *)
(* lock around a bounded depth-first search, and an atomic commit.         *)

\* the week grid
GridDays == 2
GridPeriods == 2
\* undo-and-retry steps a search may take
BacktrackBudget == 3

Slots == 1..(GridDays * GridPeriods)

\* slots are numbered in chronological order, day by day
DayOf(slot) == ((slot - 1) \div GridPeriods) + 1

Requests == {1, 2}
NoReq == 0

\* (department, semester)
Keys == {<<"CSE", "5">>, <<"ECE", "5">>}

\* What a request may ask for: subjects in placement order, and the cap on a
\* subject's sessions per day.  Every subject here needs single periods.
DemandLight ==
    [subjects |-> <<[code |-> "CS101", faculty |-> "Rao", hoursPerWeek |-> 2],
                    [code |-> "CS102", faculty |-> "Rao", hoursPerWeek |-> 1]>>,
     maxSessionsPerDay |-> 1]
DemandHeavy ==
    [subjects |-> <<[code |-> "CS101", faculty |-> "Rao", hoursPerWeek |-> 2],
                    [code |-> "CS102", faculty |-> "Rao", hoursPerWeek |-> 2],
                    [code |-> "CS103", faculty |-> "Iyer", hoursPerWeek |-> 2],
                    [code |-> "CS104", faculty |-> "Rao", hoursPerWeek |-> 2]>>,
     maxSessionsPerDay |-> 1]
Demands == {DemandLight, DemandHeavy}

NoReply == [kind |-> "none", timetable |-> <<>>]

\* how many sessions of subject code an assignment holds
Placed(w, code) == Cardinality({ i \in 1..Len(w) : w[i].subjectCode = code })

\* the subjects of d that still lack sessions, by their index in d
Lacking(d, w) ==
    { i \in 1..Len(d.subjects) :
        Placed(w, d.subjects[i].code) < d.subjects[i].hoursPerWeek }

Complete(d, w) == Lacking(d, w) = {}

\* the subject the search places next: the first that lacks sessions
NextSubject(d, w) ==
    d.subjects[CHOOSE i \in Lacking(d, w) : \A j \in Lacking(d, w) : i <= j]

\* a feasibility test that forgets the faculty member
SlotFeasible_NoFacultyCheck(d, w, s, slot) ==
    /\ \A i \in 1..Len(w) : w[i].slot = slot => w[i].subjectCode # s.code
    /\ Cardinality({ i \in 1..Len(w) : /\ w[i].subjectCode = s.code
                                       /\ DayOf(w[i].slot) = DayOf(slot) })
          < d.maxSessionsPerDay

\* the hard constraints on putting subject s into slot, given assignment w
SlotFeasible(d, w, s, slot) ==
    /\ \A i \in 1..Len(w) :
          w[i].slot = slot =>
              /\ w[i].facultyName # s.faculty
              /\ w[i].subjectCode # s.code
    /\ Cardinality({ i \in 1..Len(w) : /\ w[i].subjectCode = s.code
                                       /\ DayOf(w[i].slot) = DayOf(slot) })
          < d.maxSessionsPerDay

\* the candidate slots for the next placement, from slot `from` on
Candidates(d, w, from) ==
    { slot \in Slots : slot >= from /\ SlotFeasible(d, w, NextSubject(d, w), slot) }

\* a generate request arrives
Submit(r) ==
    /\ pc[r] = "idle"
    /\ \E k \in Keys, d \in Demands :
         /\ rkey' = [rkey EXCEPT ![r] = k]
         /\ demand' = [demand EXCEPT ![r] = d]
    /\ pc' = [pc EXCEPT ![r] = "waiting"]
    /\ UNCHANGED <<lock, store, work, cursor, budget, reply, feVars>>

\* a request that starts its search without looking at the lock
Acquire_NoLock(r) ==
    /\ pc[r] = "waiting"
    /\ lock' = [lock EXCEPT ![rkey[r]] = r]
    /\ pc' = [pc EXCEPT ![r] = "searching"]
    /\ work' = [work EXCEPT ![r] = <<>>]
    /\ cursor' = [cursor EXCEPT ![r] = 1]
    /\ budget' = [budget EXCEPT ![r] = BacktrackBudget]
    /\ UNCHANGED <<store, rkey, demand, reply, feVars>>

\* the request takes its key's lock and starts its search
Acquire(r) ==
    /\ pc[r] = "waiting"
    /\ lock[rkey[r]] = NoReq
    /\ lock' = [lock EXCEPT ![rkey[r]] = r]
    /\ pc' = [pc EXCEPT ![r] = "searching"]
    /\ work' = [work EXCEPT ![r] = <<>>]
    /\ cursor' = [cursor EXCEPT ![r] = 1]
    /\ budget' = [budget EXCEPT ![r] = BacktrackBudget]
    /\ UNCHANGED <<store, rkey, demand, reply, feVars>>

\* the key is locked: instead of waiting on, the request is answered Busy
Busy(r) ==
    /\ pc[r] = "waiting"
    /\ lock[rkey[r]] # NoReq
    /\ reply' = [reply EXCEPT ![r] = [kind |-> "Busy", timetable |-> <<>>]]
    /\ pc' = [pc EXCEPT ![r] = "done"]
    /\ UNCHANGED <<lock, store, rkey, demand, work, cursor, budget, feVars>>

\* one placement: the next subject goes into its first candidate slot
Place(r) ==
    /\ pc[r] = "searching"
    /\ ~Complete(demand[r], work[r])
    /\ Candidates(demand[r], work[r], cursor[r]) # {}
    /\ LET s == NextSubject(demand[r], work[r])
           c == Candidates(demand[r], work[r], cursor[r])
           slot == CHOOSE x \in c : \A y \in c : x <= y
       IN  work' = [work EXCEPT ![r] =
                      Append(@, [subjectCode |-> s.code, facultyName |-> s.faculty,
                                 slot |-> slot])]
    /\ cursor' = [cursor EXCEPT ![r] = 1]
    /\ UNCHANGED <<lock, store, pc, rkey, demand, budget, reply, feVars>>

\* no candidate is left: undo the latest placement and go on after its slot
Backtrack(r) ==
    /\ pc[r] = "searching"
    /\ ~Complete(demand[r], work[r])
    /\ Candidates(demand[r], work[r], cursor[r]) = {}
    /\ work[r] # <<>>
    /\ budget[r] > 0
    /\ cursor' = [cursor EXCEPT ![r] = work[r][Len(work[r])].slot + 1]
    /\ work' = [work EXCEPT ![r] = SubSeq(@, 1, Len(@) - 1)]
    /\ budget' = [budget EXCEPT ![r] = @ - 1]
    /\ UNCHANGED <<lock, store, pc, rkey, demand, reply, feVars>>

\* the search is exhausted, or its budget is: Infeasible, with the partial
\* assignment; nothing is stored
Infeasible(r) ==
    /\ pc[r] = "searching"
    /\ ~Complete(demand[r], work[r])
    /\ Candidates(demand[r], work[r], cursor[r]) = {}
    /\ work[r] = <<>> \/ budget[r] = 0
    /\ reply' = [reply EXCEPT ![r] = [kind |-> "Infeasible",
                                      timetable |-> work[r]]]
    /\ lock' = [lock EXCEPT ![rkey[r]] = NoReq]
    /\ pc' = [pc EXCEPT ![r] = "done"]
    /\ UNCHANGED <<store, rkey, demand, work, cursor, budget, feVars>>

\* every subject has its hours: the timetable replaces the key's current one,
\* all sessions at once, and is returned
CommitTimetable(r) ==
    /\ pc[r] = "searching"
    /\ Complete(demand[r], work[r])
    /\ store' = [store EXCEPT ![rkey[r]] = [by |-> r, sessions |-> work[r]]]
    /\ reply' = [reply EXCEPT ![r] = [kind |-> "OK", timetable |-> work[r]]]
    /\ lock' = [lock EXCEPT ![rkey[r]] = NoReq]
    /\ pc' = [pc EXCEPT ![r] = "done"]
    /\ UNCHANGED <<rkey, demand, work, cursor, budget, feVars>>

BackendNext ==
    \E r \in Requests :
        \/ Submit(r)
        \/ Acquire(r)
        \/ Busy(r)
        \/ Place(r)
        \/ Backtrack(r)
        \/ Infeasible(r)
        \/ CommitTimetable(r)

---------------------------------------------------------------------------

Init ==
    /\ logged_in = FALSE
    /\ ran = FALSE
    /\ started = FALSE
    /\ view = "none"
    /\ page = "none"
    /\ clicked = "none"
    /\ pressed = "none"
    /\ buttons = {}
    /\ log = <<>>
    /\ errors = <<>>
    /\ raised = FALSE
    /\ rerun = FALSE
    /\ fieldsRead = {}
    /\ ui = UI0
    /\ lock = [k \in Keys |-> NoReq]
    /\ store = [k \in Keys |-> [by |-> NoReq, sessions |-> <<>>]]
    /\ pc = [r \in Requests |-> "idle"]
    /\ rkey = [r \in Requests |-> <<"CSE", "5">>]
    /\ demand = [r \in Requests |-> DemandLight]
    /\ work = [r \in Requests |-> <<>>]
    /\ cursor = [r \in Requests |-> 1]
    /\ budget = [r \in Requests |-> 0]
    /\ reply = [r \in Requests |-> NoReply]

Next ==
    \/ LoginRun
    \/ TimetableRun
    \/ SubjectRun
    \/ PreferenceRun

Spec == Init /\ [][Next]_vars

SpecBackend == Init /\ [][BackendNext]_vars

---------------------------------------------------------------------------
(* Properties *)

\* the requests of the latest run sent with method m to endpoint e
Sent(m, e) == { i \in 1..Len(log) : log[i].method = m /\ log[i].endpoint = e }

\* the elements of a sequence
Range(s) == { s[i] : i \in 1..Len(s) }

\* C1: every POST /api/timetable/generate carries exactly the five fields
\* department, semester, subjects, maxSessionsPerDay and desiredFreePeriods;
\* its subjects are exactly the entries of the list fetched in the same run
\* that the user picked in the multiselect, none more and none less;
\* maxSessionsPerDay is in 1..10 and desiredFreePeriods in 0..20.
C1_GeneratePayloadIsSelection ==
    \A i \in Sent("POST", GENERATE) :
        /\ DOMAIN log[i].payload = {"department", "semester", "subjects",
                                    "maxSessionsPerDay", "desiredFreePeriods"}
        /\ Range(log[i].payload.subjects) = { ui.subjects[j] : j \in ui.picked }
        /\ log[i].payload.maxSessionsPerDay \in 1..10
        /\ log[i].payload.desiredFreePeriods \in 0..20

\* the Timetable Management page is on the screen, rendered to its end
TimetablePageShown ==
    /\ logged_in /\ view = "main" /\ page = "Timetable Management"
    /\ ~raised /\ ~rerun

\* C2 as claimed: with the Timetable Management page on the screen of a
\* logged-in user, some interaction leads to a run that sends
\* POST /api/timetable/validate.
C2_ValidateReachable ==
    TimetablePageShown => ENABLED (Next /\ \E i \in 1..Len(log') :
                                              log'[i].endpoint = VALIDATE)

\* C2 as amended: no run ever sends a request to /api/timetable/validate;
\* the requests of a run on the Timetable Management page go to
\* GET /api/subjects, GET /api/faculty/preferences,
\* POST /api/timetable/generate and GET /api/timetable/download/{csv,excel}.
C2_NeverValidates ==
    /\ \A i \in 1..Len(log) : log[i].endpoint # VALIDATE
    /\ page = "Timetable Management" =>
         \A i \in 1..Len(log) :
             <<log[i].method, log[i].endpoint>> \in
                 {<<"GET", SUBJECTS>>, <<"GET", PREFERENCES>>, <<"POST", GENERATE>>,
                  <<"GET", Append(DOWNLOAD, "csv")>>,
                  <<"GET", Append(DOWNLOAD, "excel")>>}

\* a run in which the download operation went through
C2_Witness ==
    /\ pressed = "Download Timetable"
    /\ \E i \in Sent("GET", Append(DOWNLOAD, "excel")) : log[i].resp = "ok"

\* C3: every request answered with a non-200 status leads to an error shown
\* in the same run (an error message, or the exception Streamlit displays),
\* and its body is not used.
C3_FailuresReported ==
    \A i \in 1..Len(log) :
        log[i].resp = "err" => /\ errors # <<>> \/ raised
                               /\ ~log[i].used

\* C4: every POST /api/faculty/preferences carries exactly faculty,
\* preferredDays and preferredTime, with faculty a non-empty faculty name of
\* the subjects fetched in the run, preferredDays a non-empty subset of the
\* five weekdays and preferredTime a subset of the five periods; when Add
\* Preference is pressed with no faculty or no day selected, no request is
\* sent and an error is shown.
C4_PreferencePayload ==
    /\ \A i \in Sent("POST", PREFERENCES) :
        /\ DOMAIN log[i].payload = {"faculty", "preferredDays", "preferredTime"}
        /\ log[i].payload.faculty # ""
        /\ \E s \in Range(ui.subjects) : s.faculty = log[i].payload.faculty
        /\ log[i].payload.preferredDays # {}
        /\ log[i].payload.preferredDays \subseteq
               {"Monday", "Tuesday", "Wednesday", "Thursday", "Friday"}
        /\ log[i].payload.preferredTime \subseteq
               {"8:45am - 9:30am", "9:30am - 10:15am", "10:15am - 11:00am",
                "11:30am - 12:15pm", "12:15pm - 1:00pm"}
    /\ ( /\ pressed = "Add Preference"
         /\ \/ ui.faculty = <<>>
            \/ ui.faculty[1] = ""
            \/ ui.days = {} )
       => /\ Sent("POST", PREFERENCES) = {}
          /\ errors # <<>>

\* a preference went out although the subject list offers an empty name too
C4_Witness ==
    /\ Sent("POST", PREFERENCES) # {}
    /\ "" \in Range(ui.faculty_list)

\* the Subject fields of the data model
DataModelFields ==
    {"code", "name", "department", "facultyPrimary", "facultyAlternate",
     "hoursPerWeek", "labRequired", "available"}

\* C5 as claimed: the object sent to POST /api/subjects has exactly the
\* data model's field names, and subjects read back are subscripted by
\* those names.
C5_DataModelFieldNames ==
    /\ \A i \in Sent("POST", SUBJECTS) : DOMAIN log[i].payload = DataModelFields
    /\ fieldsRead \subseteq DataModelFields

\* C5 as amended: the object sent to POST /api/subjects has exactly the
\* fields name, code, faculty, alternateFaculty, hoursPerWeek, labRequired,
\* department and available, and subjects read back are subscripted by
\* names among these.
C5_FieldNames ==
    /\ \A i \in Sent("POST", SUBJECTS) :
          DOMAIN log[i].payload =
              {"name", "code", "faculty", "alternateFaculty", "hoursPerWeek",
               "labRequired", "department", "available"}
    /\ fieldsRead \subseteq
          {"name", "code", "faculty", "alternateFaculty", "hoursPerWeek",
           "labRequired", "department", "available"}

\* a subject was sent in a run that also showed the table of subjects
C5_Witness ==
    /\ Sent("POST", SUBJECTS) # {}
    /\ "hoursPerWeek" \in fieldsRead

\* no two sessions of a timetable share a slot and a faculty member, or a
\* slot and a subject
NoDoubleBooking(tt) ==
    \A i, j \in 1..Len(tt) :
        (i # j /\ tt[i].slot = tt[j].slot) =>
            /\ tt[i].facultyName # tt[j].facultyName
            /\ tt[i].subjectCode # tt[j].subjectCode

\* C6: at most one generation per key is in flight; a request that finds its
\* key locked waits or is answered Busy without touching the store; the
\* stored timetable of a key is the complete result of one request.
C6_OneGenerationPerKey ==
    /\ \A k \in Keys :
          Cardinality({ r \in Requests : pc[r] = "searching" /\ rkey[r] = k }) <= 1
    /\ \A r \in Requests :
          pc[r] = "searching" => lock[rkey[r]] = r
    /\ \A r \in Requests :
          reply[r].kind = "Busy" => \A k \in Keys : store[k].by # r
    /\ \A k \in Keys :
          store[k].by # NoReq =>
              /\ rkey[store[k].by] = k
              /\ reply[store[k].by] = [kind |-> "OK", timetable |-> store[k].sessions]
              /\ Complete(demand[store[k].by], store[k].sessions)

\* two requests for one key: one has committed while the other, which met
\* the lock, was answered Busy
C6_Witness ==
    \E r1, r2 \in Requests :
        /\ r1 # r2 /\ rkey[r1] = rkey[r2]
        /\ store[rkey[r1]].by = r1
        /\ reply[r2].kind = "Busy"

\* C7: a timetable returned by a successful generation has no faculty member
\* and no subject twice in one slot, and holds every subject's hours; what
\* cannot be scheduled is answered Infeasible and leaves the store alone.
C7_NoDoubleBooking ==
    /\ \A r \in Requests :
          /\ reply[r].kind \in {"none", "OK", "Infeasible", "Busy"}
          /\ reply[r].kind = "OK" =>
                /\ NoDoubleBooking(reply[r].timetable)
                /\ Complete(demand[r], reply[r].timetable)
          /\ reply[r].kind = "Infeasible" => \A k \in Keys : store[k].by # r
    /\ \A k \in Keys : NoDoubleBooking(store[k].sessions)

\* one request got a timetable with one faculty member teaching two
\* subjects, another was answered Infeasible
C7_Witness ==
    \E r1, r2 \in Requests :
        /\ reply[r1].kind = "OK"
        /\ \E i, j \in 1..Len(reply[r1].timetable) :
              /\ reply[r1].timetable[i].facultyName = reply[r1].timetable[j].facultyName
              /\ reply[r1].timetable[i].subjectCode # reply[r1].timetable[j].subjectCode
        /\ reply[r2].kind = "Infeasible"

\* C8: a session starts logged out; a run that starts logged out renders
\* the login page only and sends no request; logged_in turns true only in a
\* run where Login is pressed with username "admin" and password
\* "timetable123"; a failed login leaves it false.
C8_LoginGate ==
    /\ ~logged_in
    /\ [](ran /\ ~started => /\ view = "login"
                             /\ log = <<>>
                             /\ buttons \subseteq {"Login"})
    /\ [][~logged_in /\ logged_in' => /\ pressed' = "Login"
                                      /\ ui'.username = "admin"
                                      /\ ui'.password = "timetable123"]_vars
    /\ [][~logged_in /\ pressed' = "Login"
              /\ ~(ui'.username = "admin" /\ ui'.password = "timetable123")
            => ~logged_in' /\ errors' # <<>>]_vars

\* a login that went through
C8_Witness ==
    /\ ran /\ ~started /\ pressed = "Login" /\ logged_in

\* C9: a run that starts logged in offers the Logout button, whatever the
\* page and whatever the backend does, and a click on Logout logs out.
C9_LogoutAlwaysOffered ==
    (ran /\ started) => /\ "Logout" \in buttons
                        /\ clicked = "Logout" => ~logged_in

\* C10: when Generate Timetable is pressed, a generate request is sent only
\* with at least one subject selected and department and semester non-empty;
\* otherwise no request is sent and exactly one error is shown, the missing
\* subject before the missing department or semester; logged_in stays as it
\* was.
C10_GenerateValidation ==
    pressed = "Generate Timetable" =>
        LET complete == ui.picked # {} /\ ui.department # "" /\ ui.semester # ""
        IN  /\ Sent("POST", GENERATE) # {} => complete
            /\ ~complete =>
                  /\ \A i \in 1..Len(log) : log[i].endpoint # GENERATE
                  /\ errors = IF ui.picked = {}
                              THEN <<"Please select at least one subject.">>
                              ELSE <<"Department and Semester are required.">>
            /\ logged_in = started

\* Generate pressed with nothing selected and no department: the one error
\* is the missing subject
C10_Witness ==
    /\ pressed = "Generate Timetable"
    /\ ui.picked = {} /\ ui.department = ""
    /\ errors = <<"Please select at least one subject.">>

===========================================================================
